---- MODULE Spec2Model ----
(***************************************************************************)
(* A state-machine model of the blog generator's build pipeline            *)
(* (src/src/main.rs): one invocation of main() reads the article tree,     *)
(* filters and sorts it, writes the home page, the article listing, one    *)
(* page per article and one page per standalone page into the output       *)
(* tree.  The file system, the sources found by the two globs and the      *)
(* command line are the environment; each step of main() is one action.    *)
(***************************************************************************)
EXTENDS Integers, Sequences, FiniteSets, TLC

\* At most this many source files exist under the articles tree.
MaxArticles == 2
\* At most this many source files exist under the pages tree.
MaxPages == 1

(***************************************************************************)
(* Option<T>: None is the empty sequence, Some(x) the one-element one.     *)
(***************************************************************************)
None == <<>>
Some(x) == <<x>>
IsSome(o) == Len(o) = 1
Unwrap(o) == o[1]

(***************************************************************************)
(* Text formatting: format!("{:04}") and format!("{:02}") of a             *)
(* non-negative integer.                                                   *)
(***************************************************************************)
Digit(n) ==
    CASE n = 0 -> "0" [] n = 1 -> "1" [] n = 2 -> "2" [] n = 3 -> "3"
      [] n = 4 -> "4" [] n = 5 -> "5" [] n = 6 -> "6" [] n = 7 -> "7"
      [] n = 8 -> "8" [] n = 9 -> "9"

Pad2(n) == Digit((n \div 10) % 10) \o Digit(n % 10)

Pad4(n) ==
    Digit((n \div 1000) % 10) \o Digit((n \div 100) % 10)
        \o Digit((n \div 10) % 10) \o Digit(n % 10)

(***************************************************************************)
(* The calendar of the `time` crate, as far as main.rs uses it.  A date    *)
(* text is the sequence of its characters; a Date is [year, month, day].   *)
(***************************************************************************)
DigitVal(c) ==
    CASE c = "0" -> 0 [] c = "1" -> 1 [] c = "2" -> 2 [] c = "3" -> 3
      [] c = "4" -> 4 [] c = "5" -> 5 [] c = "6" -> 6 [] c = "7" -> 7
      [] c = "8" -> 8 [] c = "9" -> 9 [] OTHER -> -1

IsLeap(y) == (y % 4 = 0 /\ y % 100 # 0) \/ y % 400 = 0

DaysInMonth(y, m) ==
    CASE m \in {1, 3, 5, 7, 8, 10, 12} -> 31
      [] m \in {4, 6, 9, 11} -> 30
      [] OTHER -> IF IsLeap(y) THEN 29 ELSE 28

\* Date::parse(text, "[year]-[month]-[day]"): Some(date) or None (an Err).
DateParse(text) ==
    IF /\ Len(text) = 10
       /\ text[5] = "-" /\ text[8] = "-"
       /\ \A k \in {1, 2, 3, 4, 6, 7, 9, 10} : DigitVal(text[k]) >= 0
    THEN LET y == DigitVal(text[1]) * 1000 + DigitVal(text[2]) * 100
                    + DigitVal(text[3]) * 10 + DigitVal(text[4])
             m == DigitVal(text[6]) * 10 + DigitVal(text[7])
             d == DigitVal(text[9]) * 10 + DigitVal(text[10])
         IN  IF m \in 1..12 /\ d >= 1 /\ d <= DaysInMonth(y, m)
             THEN Some([year |-> y, month |-> m, day |-> d])
             ELSE None
    ELSE None

\* date.format("[year]-[month]-[day]")
DateFormat(date) ==
    Pad4(date.year) \o "-" \o Pad2(date.month) \o "-" \o Pad2(date.day)

RECURSIVE DaysBeforeMonth(_, _)
DaysBeforeMonth(y, m) ==
    IF m = 1 THEN 0 ELSE DaysBeforeMonth(y, m - 1) + DaysInMonth(y, m - 1)

\* date.ordinal(): the day of the year, from 1.
Ordinal(date) == DaysBeforeMonth(date.year, date.month) + date.day

\* Days from 0001-01-01 (a Monday) to January 1st of year y.
DaysBeforeYear(y) ==
    365 * (y - 1) + ((y - 1) \div 4) - ((y - 1) \div 100) + ((y - 1) \div 400)

\* date.weekday().number_from_monday(): 1 = Monday .. 7 = Sunday.
WeekdayFromMonday(y, ordinal) == ((DaysBeforeYear(y) + ordinal - 1) % 7) + 1

\* The number of ISO weeks of year y: 53 when January 1st is a Thursday, or a
\* Wednesday of a leap year.
WeeksInYear(y) ==
    LET jan1 == WeekdayFromMonday(y, 1)
    IN  IF jan1 = 4 \/ (jan1 = 3 /\ IsLeap(y)) THEN 53 ELSE 52

\* date.iso_week(): the ISO-8601 week number of the date.
IsoWeek(date) ==
    LET o == Ordinal(date)
        w == (o + 10 - WeekdayFromMonday(date.year, o)) \div 7
    IN  IF w = 0 THEN WeeksInYear(date.year - 1)
        ELSE IF w = 53 /\ WeeksInYear(date.year) = 52 THEN 1
        ELSE w

\* date.year(): the calendar year.
Year(date) == date.year

\* The derived ordering of Date, as a sort key.
DateKey(date) == date.year * 1000 + Ordinal(date)

(***************************************************************************)
(* The environment: the configuration, the two source trees, the command   *)
(* line.                                                                   *)
(***************************************************************************)

\* blog.toml, deserialized into BlogData.
BlogData ==
    [title |-> "My Blog",
     socials |-> << [name |-> "GitHub", icon_name |-> "github",
                     url |-> "https://github.com/a"],
                    [name |-> "Feed", icon_name |-> "rss",
                     url |-> "https://a.example/feed"] >>]

\* The paths "../blog-data/articles/**/*.px" can match, in the order glob
\* yields them (alphabetical): a/hello.px, b/hello.px, world.px.
ArticlePaths ==
    << [tree |-> "articles", dir |-> "a", stem |-> "hello"],
       [tree |-> "articles", dir |-> "b", stem |-> "hello"],
       [tree |-> "articles", dir |-> "", stem |-> "world"] >>

\* The paths "../blog-data/pages/**/*.px" can match, in glob order:
\* articles.px, index.html.px, me.px.
PagePaths ==
    << [tree |-> "pages", dir |-> "", stem |-> "articles"],
       [tree |-> "pages", dir |-> "", stem |-> "index.html"],
       [tree |-> "pages", dir |-> "", stem |-> "me"] >>

NoPath == [tree |-> "", dir |-> "", stem |-> ""]

\* Date texts an author may write in a document's metadata.
Text_2024_03_15 == << "2", "0", "2", "4", "-", "0", "3", "-", "1", "5" >>
Text_2024_12_30 == << "2", "0", "2", "4", "-", "1", "2", "-", "3", "0" >>
Text_2024_3_5 == << "2", "0", "2", "4", "-", "3", "-", "5" >>

\* A source file: whether pastex can process it, and the metadata it holds.
Source(readable, title, date, draft) ==
    [readable |-> readable, title |-> title, date |-> date, draft |-> draft]

Absent == [readable |-> FALSE, title |-> None, date |-> None, draft |-> TRUE]
Unreadable == Source(FALSE, None, None, FALSE)

\* The source files an articles tree may hold.
ArticleSources ==
    { Source(TRUE, Some("Hello"), Some(Text_2024_03_15), FALSE),
      Source(TRUE, Some("Bye"), Some(Text_2024_12_30), FALSE),
      Source(TRUE, Some("Wip"), Some(Text_2024_03_15), TRUE),
      Source(TRUE, Some("Note"), None, FALSE),
      Source(TRUE, Some("Typo"), Some(Text_2024_3_5), FALSE),
      Source(TRUE, None, Some(Text_2024_03_15), FALSE),
      Unreadable }

\* The source files a pages tree may hold.
PageSources ==
    { Source(TRUE, Some("About"), None, FALSE),
      Source(TRUE, Some("Wip"), None, TRUE),
      Source(TRUE, None, None, FALSE),
      Unreadable }

\* A tree gives each path a source file, or Absent.
Trees(paths, sources, max) ==
    { t \in [1..Len(paths) -> sources \cup {Absent}] :
        Cardinality({k \in 1..Len(paths) : t[k] # Absent}) <= max }

\* An asset manifest named on the command line, if any: a name -> URL map.
\* main() reads no command line argument.
Manifests ==
    { None, Some([name \in {"icons.svg"} |-> "/assets/icons-1f3a.svg"]) }

RECURSIVE SelectIdx(_, _)
\* The indices k <= n of the tree's present files, ascending.
SelectIdx(t, n) ==
    IF n = 0 THEN <<>>
    ELSE IF t[n] # Absent THEN Append(SelectIdx(t, n - 1), n)
    ELSE SelectIdx(t, n - 1)

\* glob::glob(pattern): the matching paths, as indices, in glob order.
Glob(t, paths) == SelectIdx(t, Len(paths))

\* pastex::document::process(path): Some(document) or None (an Err).
Process(src) ==
    IF src.readable
    THEN Some([metadata |-> [title |-> src.title, date |-> src.date,
                             draft |-> src.draft]])
    ELSE None

(***************************************************************************)
(* The file system under the working directory.  A path is the sequence of *)
(* its components; dirs is the set of directories, files maps each file    *)
(* to its content.                                                         *)
(***************************************************************************)
Parent(p) == SubSeq(p, 1, Len(p) - 1)
Join(p, name) == Append(p, name)
Prefixes(p) == { SubSeq(p, 1, k) : k \in 1..Len(p) }

\* Path::is_dir
IsDir(ds, p) == p = <<>> \/ p \in ds
IsFile(fl, p) == p \in DOMAIN fl

\* fs::create_dir(p) succeeds iff the parent is a directory and p is new.
CreateDirOk(ds, fl, p) ==
    IsDir(ds, Parent(p)) /\ ~IsDir(ds, p) /\ ~IsFile(fl, p)

\* fs::create_dir_all(p) succeeds iff no component of p is a file.
CreateDirAllOk(ds, fl, p) == \A q \in Prefixes(p) : ~IsFile(fl, q)

\* fs::write(p, content) succeeds iff the parent is a directory and p is not.
WriteOk(ds, fl, p) == IsDir(ds, Parent(p)) /\ ~IsDir(ds, p)

Put(fl, p, content) ==
    [q \in DOMAIN fl \cup {p} |-> IF q = p THEN content ELSE fl[q]]

NoFiles == [q \in {} |-> 0]

OutputDir == << "output" >>

(***************************************************************************)
(* Page assembly.  A fragment records what the claims read of a page: its  *)
(* kind, the source document it renders, its header, its previews in       *)
(* order and the sprite references of the layout's nav.                    *)
(***************************************************************************)
RECURSIVE Reverse(_)
\* Iterator::rev
Reverse(s) == IF s = <<>> THEN <<>> ELSE Append(Reverse(Tail(s)), Head(s))

Stem(path) == path.stem

\* The href of a preview link: format!("/{:04}/{:02}/{}/", year, iso_week, stem)
PreviewHref(article) ==
    "/" \o Pad4(Year(article.date)) \o "/" \o Pad2(IsoWeek(article.date))
        \o "/" \o Stem(article.path) \o "/"

\* article_preview(article); the caller has checked the title is present.
ArticlePreview(article) ==
    [src |-> article.path,
     href |-> PreviewHref(article),
     date |-> DateFormat(article.date),
     title |-> Unwrap(article.document.metadata.title)]

\* The unwrap() of the title in article_preview and article_page.
TitleOk(article) == IsSome(article.document.metadata.title)

\* IndexPreviews without the rev(): oldest first.
IndexPreviews_Forward(arts) ==
    [k \in 1..Len(arts) |-> ArticlePreview(arts[k])]

\* The previews of the home page, in order.
IndexPreviews(arts) ==
    LET r == Reverse(arts) IN [k \in 1..Len(r) |-> ArticlePreview(r[k])]

\* The previews of the article listing, in order.
ListPreviews(arts) ==
    LET r == Reverse(arts) IN [k \in 1..Len(r) |-> ArticlePreview(r[k])]

Fragment(kind, src, title, date, previews) ==
    [kind |-> kind, src |-> src, title |-> title, date |-> date,
     previews |-> previews]

\* index(blog_data, articles)
Index(blog_data, arts) ==
    Fragment("home", NoPath, blog_data.title, "", IndexPreviews(arts))

\* article_list(articles)
ArticleList(arts) == Fragment("list", NoPath, "", "", ListPreviews(arts))

\* article_page(article)
ArticlePage(article) ==
    Fragment("article", article.path,
             Unwrap(article.document.metadata.title),
             DateFormat(article.date), <<>>)

\* The fragment of a standalone page (the closure at main.rs:248).
StandalonePage(path, document) ==
    Fragment("page", path, Unwrap(document.metadata.title), "", <<>>)

\* The href of a social icon's sprite in the nav.
SpriteHref(social) == "/assets/icons.svg#" \o social.icon_name

\* layout(blog_data, inner)
Layout(blog_data, inner) ==
    [site |-> blog_data.title,
     sprites |-> [k \in 1..Len(blog_data.socials) |->
                    SpriteHref(blog_data.socials[k])],
     inner |-> inner]

\* HtmlDocument(fragment).to_string(): the doctype line, then the fragment.
HtmlDocumentToString(fragment) == [doctype |-> TRUE, html |-> fragment]

\* fragment.to_string(): the serialized fragment alone.
FragmentToString(fragment) == [doctype |-> FALSE, html |-> fragment]

\* The home page as main() writes it.
HomeText(arts) == HtmlDocumentToString(Layout(BlogData, Index(BlogData, arts)))

\* The article listing as main() writes it.
ListText(arts) == FragmentToString(Layout(BlogData, ArticleList(arts)))

\* An article's page as main() writes it.
ArticleText(article) ==
    HtmlDocumentToString(Layout(BlogData, ArticlePage(article)))

\* A standalone page as main() writes it.
PageText(path, document) ==
    FragmentToString(Layout(BlogData, StandalonePage(path, document)))

\* The routes of main().
HomeFile == Join(OutputDir, "index.html")
ListDir == Join(OutputDir, "articles")
ArticleDir(article) ==
    Join(OutputDir \o << Pad4(Year(article.date)),
                         Pad2(IsoWeek(article.date)) >>,
         Stem(article.path))
PageDir(path) == Join(OutputDir, Stem(path))
IndexFile(dir) == Join(dir, "index.html")

(***************************************************************************)
(* articles(): process, filter, parse the dates, sort.                     *)
(***************************************************************************)
\* Retain without the draft test.
Retain_DraftsToo(entry) == IsSome(entry.document.metadata.date)

\* The filter of articles(): not a draft, and dated.
Retain(entry) ==
    ~entry.document.metadata.draft /\ IsSome(entry.document.metadata.date)

\* The (document, path) pairs of the processed tree, in glob order; defined
\* when every file of the tree is processed without error.
Processed(t) ==
    LET idx == Glob(t, ArticlePaths)
    IN  [k \in 1..Len(idx) |->
            [document |-> Unwrap(Process(t[idx[k]])),
             path |-> ArticlePaths[idx[k]]]]

AllProcessed(t) ==
    \A k \in 1..Len(ArticlePaths) : t[k] # Absent => IsSome(Process(t[k]))

\* The unwrap() of Date::parse for every retained document.
AllDatesParse(kept) ==
    \A k \in 1..Len(kept) :
        IsSome(DateParse(Unwrap(kept[k].document.metadata.date)))

MakeArticle(entry) ==
    [document |-> entry.document, path |-> entry.path,
     date |-> Unwrap(DateParse(Unwrap(entry.document.metadata.date)))]

Orderings(n) ==
    { f \in [1..n -> 1..n] : \A a, b \in 1..n : a # b => f[a] # f[b] }

\* SortUnstableByDate without the sort: the slice as it was.
SortUnstableByDate_Unsorted(u) == {u}

\* sort_unstable_by_key(|item| item.date): some ordering of the slice by
\* ascending date; the order of equal dates is unspecified.
SortUnstableByDate(u) ==
    { [k \in 1..Len(u) |-> u[f[k]]] : f \in
        { g \in Orderings(Len(u)) :
            \A a, b \in 1..Len(u) :
                a < b => DateKey(u[g[a]].date) <= DateKey(u[g[b]].date) } }

(***************************************************************************)
(* The state.                                                              *)
(***************************************************************************)
VARIABLES
    articleTree,  \* the sources under ../blog-data/articles
    pageTree,     \* the sources under ../blog-data/pages
    manifest,     \* the asset manifest given on the command line, if any
    pc,           \* the position of main()
    err,          \* why the run aborted, "" while it has not
    dirs,         \* the directories of the file system
    files,        \* the files of the file system and their contents
    written,      \* the files the current run has written
    articles,     \* the Vec<Article> returned by articles()
    pages,        \* the paths collected from the pages glob
    i,            \* the position of the current for loop
    run,          \* 1 for the first invocation, 2 for the second
    firstFiles,   \* the files as the first invocation left them
    sortOutcome   \* the order the build's unstable sort gave this input

vars ==
    << articleTree, pageTree, manifest, pc, err, dirs, files, written,
       articles, pages, i, run, firstFiles, sortOutcome >>

env == << articleTree, pageTree, manifest, run, firstFiles >>

Init ==
    /\ articleTree \in Trees(ArticlePaths, ArticleSources, MaxArticles)
    /\ pageTree \in Trees(PagePaths, PageSources, MaxPages)
    /\ manifest \in Manifests
    /\ pc = "start"
    /\ err = ""
    /\ dirs = {}
    /\ files = NoFiles
    /\ written = {}
    /\ articles = <<>>
    /\ pages = <<>>
    /\ i = 1
    /\ run = 1
    /\ firstFiles = NoFiles
    /\ sortOutcome = None

\* The run aborts: an Err returned through `?`, or a panic of unwrap().
Abort(why) ==
    /\ pc' = "failed"
    /\ err' = why
    /\ UNCHANGED << dirs, files, written, articles, pages, i, sortOutcome >>

\* EnsureDirOk without the is_dir() test: create_dir on every run.
EnsureDirOk_Unguarded(ds, fl, p) == CreateDirOk(ds, fl, p)

\* `if !path.is_dir() { fs::create_dir(&path)?; }`
EnsureDirOk(ds, fl, p) == IsDir(ds, p) \/ CreateDirOk(ds, fl, p)

\* `if !path.is_dir() { fs::create_dir_all(&path)?; }`
EnsureDirAllOk(ds, fl, p) == IsDir(ds, p) \/ CreateDirAllOk(ds, fl, p)

\* main.rs:199-205: load blog.toml, make sure the output directory exists.
Start ==
    /\ pc = "start"
    /\ IF EnsureDirOk(dirs, files, OutputDir)
       THEN /\ dirs' = dirs \cup {OutputDir}
            /\ pc' = "articles"
            /\ UNCHANGED << err, files, written, articles, pages, i,
                            sortOutcome >>
       ELSE Abort("io")
    /\ UNCHANGED env

\* main.rs:207, articles(): process every file of the tree, keep the
\* published dated documents, parse their dates, sort by date.
LoadArticles ==
    /\ pc = "articles"
    /\ IF ~AllProcessed(articleTree)
       THEN Abort("process")
       ELSE LET kept == SelectSeq(Processed(articleTree), Retain)
            IN  IF ~AllDatesParse(kept)
                THEN Abort("date")
                ELSE LET u == [k \in 1..Len(kept) |-> MakeArticle(kept[k])]
                     IN  /\ \E s \in SortUnstableByDate(u) :
                                /\ IsSome(sortOutcome) => s = Unwrap(sortOutcome)
                                /\ articles' = s
                                /\ sortOutcome' = Some(s)
                         /\ pc' = "home"
                         /\ UNCHANGED << err, dirs, files, written, pages, i >>
    /\ UNCHANGED env

\* main.rs:209-215: the home page.
WriteHome ==
    /\ pc = "home"
    /\ IF \E k \in 1..Len(articles) : ~TitleOk(articles[k])
       THEN Abort("title")
       ELSE IF ~WriteOk(dirs, files, HomeFile)
       THEN Abort("io")
       ELSE /\ files' = Put(files, HomeFile, HomeText(articles))
            /\ written' = written \cup {HomeFile}
            /\ pc' = "list"
            /\ UNCHANGED << err, dirs, articles, pages, i, sortOutcome >>
    /\ UNCHANGED env

\* main.rs:217-227: the article listing.
WriteList ==
    /\ pc = "list"
    /\ IF \E k \in 1..Len(articles) : ~TitleOk(articles[k])
       THEN Abort("title")
       ELSE IF ~EnsureDirOk(dirs, files, ListDir)
       THEN Abort("io")
       ELSE IF ~WriteOk(dirs \cup {ListDir}, files, IndexFile(ListDir))
       THEN /\ dirs' = dirs \cup {ListDir}
            /\ pc' = "failed"
            /\ err' = "io"
            /\ UNCHANGED << files, written, articles, pages, i, sortOutcome >>
       ELSE /\ dirs' = dirs \cup {ListDir}
            /\ files' = Put(files, IndexFile(ListDir), ListText(articles))
            /\ written' = written \cup {IndexFile(ListDir)}
            /\ pc' = "article"
            /\ i' = 1
            /\ UNCHANGED << err, articles, pages, sortOutcome >>
    /\ UNCHANGED env

\* main.rs:229-243: one iteration of the loop over the articles.
WriteArticle ==
    /\ pc = "article"
    /\ i <= Len(articles)
    /\ LET article == articles[i]
           dir == ArticleDir(article)
           ds == dirs \cup Prefixes(dir)
       IN  IF ~TitleOk(article)
           THEN Abort("title")
           ELSE IF ~EnsureDirAllOk(dirs, files, dir)
           THEN Abort("io")
           ELSE IF ~WriteOk(ds, files, IndexFile(dir))
           THEN /\ dirs' = ds
                /\ pc' = "failed"
                /\ err' = "io"
                /\ UNCHANGED << files, written, articles, pages, i,
                                sortOutcome >>
           ELSE /\ dirs' = ds
                /\ files' = Put(files, IndexFile(dir), ArticleText(article))
                /\ written' = written \cup {IndexFile(dir)}
                /\ i' = i + 1
                /\ UNCHANGED << pc, err, articles, pages, sortOutcome >>
    /\ UNCHANGED env

\* main.rs:245-247: the loop over the articles is over; collect the paths
\* of the pages glob.  The map over them is lazy: each page is processed
\* when the for loop reaches it.
GlobPages ==
    /\ pc = "article"
    /\ i > Len(articles)
    /\ pages' = Glob(pageTree, PagePaths)
    /\ pc' = "page"
    /\ i' = 1
    /\ UNCHANGED << err, dirs, files, written, articles, sortOutcome >>
    /\ UNCHANGED env

\* main.rs:248-268: one iteration of the loop over the pages: process the
\* source, build the page, write it.
WritePage ==
    /\ pc = "page"
    /\ i <= Len(pages)
    /\ LET path == PagePaths[pages[i]]
           document == Process(pageTree[pages[i]])
           dir == PageDir(path)
           ds == dirs \cup Prefixes(dir)
       IN  IF ~IsSome(document)
           THEN Abort("process")
           ELSE IF ~IsSome(Unwrap(document).metadata.title)
           THEN Abort("title")
           ELSE IF ~EnsureDirAllOk(dirs, files, dir)
           THEN Abort("io")
           ELSE IF ~WriteOk(ds, files, IndexFile(dir))
           THEN /\ dirs' = ds
                /\ pc' = "failed"
                /\ err' = "io"
                /\ UNCHANGED << files, written, articles, pages, i,
                                sortOutcome >>
           ELSE /\ dirs' = ds
                /\ files' = Put(files, IndexFile(dir),
                                PageText(path, Unwrap(document)))
                /\ written' = written \cup {IndexFile(dir)}
                /\ i' = i + 1
                /\ UNCHANGED << pc, err, articles, pages, sortOutcome >>
    /\ UNCHANGED env

\* main.rs:270: the loop over the pages is over; main returns Ok(()).
Exit ==
    /\ pc = "page"
    /\ i > Len(pages)
    /\ pc' = "done"
    /\ UNCHANGED << err, dirs, files, written, articles, pages, i,
                    sortOutcome >>
    /\ UNCHANGED env

\* The program is invoked again on the unchanged input and the output tree
\* the first invocation left.
Rerun ==
    /\ pc = "done"
    /\ run = 1
    /\ run' = 2
    /\ firstFiles' = files
    /\ pc' = "start"
    /\ written' = {}
    /\ articles' = <<>>
    /\ pages' = <<>>
    /\ i' = 1
    /\ UNCHANGED << articleTree, pageTree, manifest, err, dirs, files,
                    sortOutcome >>

Next ==
    \/ Start
    \/ LoadArticles
    \/ WriteHome
    \/ WriteList
    \/ WriteArticle
    \/ GlobPages
    \/ WritePage
    \/ Exit
    \/ Rerun

Spec == Init /\ [][Next]_vars

(***************************************************************************)
(* Properties.                                                             *)
(***************************************************************************)
Loaded == pc \in {"home", "list", "article", "page", "done"}

Inner(p) == files[p].html.inner

\* The paths of the tree's documents that pastex processes as drafts.
DraftPaths(t, paths) ==
    { paths[k] : k \in { n \in 1..Len(paths) :
                           t[n] # Absent /\ t[n].readable /\ t[n].draft } }

\* No file of the output tree renders or previews a document of set ds.
Unpublished(ds) ==
    \A p \in DOMAIN files :
        /\ Inner(p).src \notin ds
        /\ \A k \in 1..Len(Inner(p).previews) :
              Inner(p).previews[k].src \notin ds

\* C1 (as stated): no document with draft = true, of the articles tree or of
\* the pages tree, is previewed on the home page or the listing, and no
\* output file of its own is written for it.
C1_NoDraftPublished ==
    Unpublished(DraftPaths(articleTree, ArticlePaths)
                  \cup DraftPaths(pageTree, PagePaths))

\* C1 (amended): no document of the articles tree with draft = true is
\* previewed on the home page or the listing, and no output file of its own
\* is written for it.
C1_NoDraftArticlePublished ==
    Unpublished(DraftPaths(articleTree, ArticlePaths))

\* A run has ended normally on a tree holding a draft article next to a
\* published one.
C1_Witness ==
    /\ pc = "done"
    /\ DraftPaths(articleTree, ArticlePaths) # {}
    /\ Len(articles) >= 1

\* The paths the retention predicate of the specification keeps: not a
\* draft, dated, and the date parses.
SpecRetained(t) ==
    { ArticlePaths[k] : k \in { n \in 1..Len(ArticlePaths) :
        /\ t[n] # Absent
        /\ ~t[n].draft
        /\ IsSome(t[n].date)
        /\ IsSome(DateParse(Unwrap(t[n].date))) } }

\* C2: when every file is processed, articles() returns exactly the
\* documents that are not drafts and carry a date that parses; a malformed
\* date aborts nothing.
C2_MalformedDateDropped ==
    AllProcessed(articleTree) =>
        /\ err # "date"
        /\ Loaded =>
              { articles[k].path : k \in 1..Len(articles) }
                  = SpecRetained(articleTree)

\* C3: a run that aborts on a document that cannot be processed or has no
\* title has written no page file.
C3_IngestionFailureWritesNothing ==
    (pc = "failed" /\ err \in {"process", "title"}) => written = {}

Holds(p, text) == p \in DOMAIN files /\ files[p] = text

\* C4: when a run ends normally, the home page, the listing, every article
\* and every standalone page is in the output tree at its own route.
C4_EveryPageAtItsRoute ==
    pc = "done" =>
        /\ Holds(HomeFile, HomeText(articles))
        /\ Holds(IndexFile(ListDir), ListText(articles))
        /\ \A k \in 1..Len(articles) :
              Holds(IndexFile(ArticleDir(articles[k])),
                    ArticleText(articles[k]))
        /\ \A k \in 1..Len(pages) :
              Holds(IndexFile(PageDir(PagePaths[pages[k]])),
                    PageText(PagePaths[pages[k]],
                             Unwrap(Process(pageTree[pages[k]]))))

\* C5: every file a run writes starts with the doctype declaration.
C5_EveryFileHasDoctype == \A p \in written : files[p].doctype

\* The position of the preview of path q in a preview sequence, 0 if none.
PreviewPos(previews, q) ==
    IF \E k \in 1..Len(previews) : previews[k].src = q
    THEN CHOOSE k \in 1..Len(previews) : previews[k].src = q
    ELSE 0

\* C6: the previews of the home page and of the listing are the articles
\* in reverse order: a later article's preview comes first, and every
\* article is previewed exactly once.
C6_ListingsNewestFirst ==
    \A p \in written :
        Inner(p).kind \in {"home", "list"} =>
            LET pv == Inner(p).previews
            IN  /\ Len(pv) = Len(articles)
                /\ \A k \in 1..Len(pv) :
                      pv[k].src = articles[Len(articles) + 1 - k].path
                /\ \A a \in 1..Len(articles) :
                      Cardinality({ k \in 1..Len(pv) :
                                      pv[k].src = articles[a].path }) = 1
                /\ \A a, b \in 1..Len(articles) :
                      DateKey(articles[a].date) < DateKey(articles[b].date)
                          => PreviewPos(pv, articles[b].path)
                                < PreviewPos(pv, articles[a].path)

\* Both listings are written and preview two articles of different dates.
C6_Witness ==
    /\ Len(articles) = 2
    /\ DateKey(articles[1].date) < DateKey(articles[2].date)
    /\ HomeFile \in written
    /\ IndexFile(ListDir) \in written
    /\ Inner(IndexFile(ListDir)).kind = "list"

\* The ISO-8601 week-numbering year of a date.
IsoYear(date) ==
    LET o == Ordinal(date)
        w == (o + 10 - WeekdayFromMonday(date.year, o)) \div 7
    IN  IF w = 0 THEN date.year - 1
        ELSE IF w = 53 /\ WeeksInYear(date.year) = 52 THEN date.year + 1
        ELSE date.year

\* "/{year:04}/{iso_week:02}/{slug}/" under ISO-8601 week numbering.
IsoRoute(article) ==
    "/" \o Pad4(IsoYear(article.date)) \o "/" \o Pad2(IsoWeek(article.date))
        \o "/" \o Stem(article.path) \o "/"

RECURSIVE UrlOf(_)
\* The URL of a directory below the output root.
UrlOf(rel) == IF rel = <<>> THEN "/" ELSE "/" \o Head(rel) \o UrlOf(Tail(rel))

ArticleOf(q) == CHOOSE a \in { articles[k] : k \in 1..Len(articles) } : a.path = q

\* C7: the directory of every article's page and the href of every preview
\* of it are /{year:04}/{iso_week:02}/{slug}/ with the ISO week-numbering
\* year and the ISO week of the article's date.
C7_RouteIsIsoYearWeekSlug ==
    \A p \in written :
        /\ Inner(p).kind = "article" =>
              UrlOf(Tail(Parent(p))) = IsoRoute(ArticleOf(Inner(p).src))
        /\ \A k \in 1..Len(Inner(p).previews) :
              Inner(p).previews[k].href
                  = IsoRoute(ArticleOf(Inner(p).previews[k].src))

\* The position of a path in glob order.
GlobPos(q) == CHOOSE k \in 1..Len(ArticlePaths) : ArticlePaths[k] = q

\* C8 (as stated): articles() is in ascending date order and articles of
\* equal dates keep their glob order.
C8_SortIsStable ==
    Loaded =>
        \A a, b \in 1..Len(articles) :
            a < b =>
                \/ DateKey(articles[a].date) < DateKey(articles[b].date)
                \/ /\ DateKey(articles[a].date) = DateKey(articles[b].date)
                   /\ GlobPos(articles[a].path) < GlobPos(articles[b].path)

\* C8 (amended): articles() holds every retained document once, in
\* ascending date order; articles of equal dates come in either order.
C8_SortedAscending ==
    Loaded =>
        /\ \A a, b \in 1..Len(articles) :
              a < b => DateKey(articles[a].date) <= DateKey(articles[b].date)
        /\ { articles[k].path : k \in 1..Len(articles) }
              = SpecRetained(articleTree)
        /\ Cardinality(SpecRetained(articleTree)) = Len(articles)

\* articles() has returned two articles found in descending date order.
C8_Witness ==
    /\ Loaded
    /\ Len(articles) = 2
    /\ GlobPos(articles[1].path) > GlobPos(articles[2].path)
    /\ DateKey(articles[1].date) < DateKey(articles[2].date)

\* C9: the second run on unchanged input does not fail, writes every file
\* of the tree again and leaves each with the content the first run gave it.
C9_SecondRunIdentical ==
    run = 2 =>
        /\ pc # "failed"
        /\ pc = "done" =>
              /\ files = firstFiles
              /\ written = DOMAIN firstFiles

\* The second run has ended on a tree with an article and a page.
C9_Witness ==
    /\ run = 2
    /\ pc = "done"
    /\ Len(articles) >= 1
    /\ Len(pages) >= 1

\* resolve(name): the manifest's URL for the name, "/assets/" + name when
\* there is no manifest or the manifest lacks the name.
Resolve(m, name) ==
    IF IsSome(m) /\ name \in DOMAIN Unwrap(m)
    THEN Unwrap(m)[name]
    ELSE "/assets/" \o name

\* C10: every sprite reference of a written page is resolve("icons.svg")
\* under the policy the command line selects, followed by the icon's
\* fragment.
C10_SpritesResolved ==
    \A p \in written :
        \A k \in 1..Len(files[p].html.sprites) :
            files[p].html.sprites[k]
                = Resolve(manifest, "icons.svg") \o "#"
                    \o BlogData.socials[k].icon_name

====
